---- MODULE Spec2Model ----
(* Model of redis_backup.py: bgsave_and_wait, copy_data_file,               *)
(* clean_backup_dir and the orchestration in main.                          *)
EXTENDS Integers, Sequences, FiniteSets, TLC

VARIABLES
    dirState,      \* backup_dir on disk: "absent", "dir" or "notdir"
    dir,           \* entries of backup_dir, in os.listdir order
    cfg,           \* parsed command line arguments of the run
    state,         \* position of main: Idle, CopyingPrimary, ..., Done, Aborted
    exitStatus,    \* process exit status; -1 while the process is running
    ret,           \* value returned by bgsave_and_wait in this run
    copied,        \* per file type: what this run's copy_data_file call did
    pruned,        \* what this run's clean_*_backup calls did
    dir0,          \* backup_dir (state and entries) when the run started
    rewritten,     \* names written by a copy after an earlier copy wrote them
    everWritten,   \* names some copy has written so far
    verified,      \* names on disk that a checksum-verified copy wrote
    runs,          \* number of runs started
    bpc,           \* bgsave_and_wait: position in the function
    now,           \* bgsave_and_wait: wall clock (seconds)
    marker,        \* bgsave_and_wait: the store's LASTSAVE value
    bgsave_begin,  \* bgsave_and_wait: local variable
    t0,            \* bgsave_and_wait: local variable
    timeout,       \* bgsave_and_wait: argument (seconds)
    accepted,      \* bgsave_and_wait: what r.bgsave() returned
    polled,        \* bgsave_and_wait: markers read by the loop, in order
    waited,        \* bgsave_and_wait: datetime.now() - bgsave_begin, as last computed
    bret,          \* bgsave_and_wait: returned value
    calls,         \* clean_backup_dir: the calls made so far, in order
    procs          \* concurrent runs: each run's position in copy_data_file

mainVars == <<dirState, dir, cfg, state, exitStatus, ret, copied, pruned, dir0,
              rewritten, everWritten, verified, runs>>
saveVars == <<bpc, now, marker, bgsave_begin, t0, timeout, accepted, polled, waited,
              bret>>
vars == <<mainVars, saveVars, calls, procs>>

(* ------------------------------ bounds --------------------------------- *)
MaxRuns == 2            \* runs of the tool in one behaviour
MaxMtime == 2           \* modification times are 0..MaxMtime (clock ticks)
MaxBackups == 1         \* -max_backups ranges over -1..MaxBackups
MaxCleanFiles == 2      \* matching entries in a directory handed to clean_backup_dir
MaxClock == 4           \* the wall clock of bgsave_and_wait stops at MaxClock
MaxTimeout == 2         \* -bgsave_timeout ranges over 0..MaxTimeout
MaxMarker == 2          \* LASTSAVE changes at most MaxMarker times

TicksPerSecond == 2     \* mtime is a float; strftime("%S") keeps whole seconds

Ports == {1, 2}
FileTypes == {"rdb", "aof"}
Contents == 0 .. (MaxRuns + 1)
Mtimes == 0 .. MaxMtime

(* ------------------------------ file names ----------------------------- *)
\* The default -backup_filename carries no "(port_N)" text; a template that
\* ends in "(port_N)" is written as N.
DefaultTemplate == 0
Templates == {DefaultTemplate} \cup Ports

None == [stamp |-> -1, tag |-> -1, kind |-> "none"]

\* datetime.fromtimestamp(mtime).strftime(template)
strftime(mtime, template) == [stamp |-> mtime \div TicksPerSecond, tag |-> template]

\* '%s.%s' % (df_mtime, file_type)
BackupFilename(mtime, template, file_type) ==
    [stamp |-> strftime(mtime, template).stamp,
     tag   |-> strftime(mtime, template).tag,
     kind  |-> file_type]

\* f.endswith('(port_%d).%s' % (port, file_type))
EndsWithSuffix(name, port, file_type) ==
    name.tag = port /\ name.kind = file_type

(* ------------------------------ directories ---------------------------- *)
Exists(d, name) == \E i \in 1 .. Len(d) : d[i].name = name
EntryOf(d, name) == d[CHOOSE i \in 1 .. Len(d) : d[i].name = name]
NamesOf(d) == {d[i].name : i \in 1 .. Len(d)}
Without(d, name) == SelectSeq(d, LAMBDA e : e.name # name)
InsertAt(d, pos, e) == SubSeq(d, 1, pos - 1) \o <<e>> \o SubSeq(d, pos, Len(d))
\* Every entry of the file type taken, whatever port its name carries.
Matching_AnyPort(d, port, file_type) ==
    SelectSeq(d, LAMBDA e : e.name.kind = file_type)
\* [f for f in os.listdir(backup_dir) if f.endswith(suffix)]
Matching(d, port, file_type) ==
    SelectSeq(d, LAMBDA e : EndsWithSuffix(e.name, port, file_type))

(* ------------------------------ checksums ------------------------------ *)
\* hashlib.md5 over the whole file: the digest is a value computed from the
\* content alone (file name and modification time do not enter it).
file_md5(content) == <<"md5", content>>

\* checksum_compare(src, dst), for two regular files
checksum_compare(srcContent, dstContent) == file_md5(srcContent) = file_md5(dstContent)

(* ------------------------------ copy_data_file ------------------------- *)
\* The data file as the call finds it: access is "ok", "missing" (no such
\* file) or "unreadable" (stat works, open fails).
SourceFiles == [access : {"ok", "missing", "unreadable"}, mtime : Mtimes, content : Contents]

CopyReturn(dS, d, r, raised, outcome, dest) ==
    [dirState |-> dS, dir |-> d, ret |-> r, raised |-> raised,
     outcome |-> outcome, dest |-> dest]

\* The collision check left out.
DestinationTaken_Never(d, backup_path) == FALSE

\* elif os.path.exists(backup_path)
DestinationTaken(d, backup_path) == Exists(d, backup_path)

\* shutil.copy2(data_file, backup_path): bytes and modification time
copy2(d, source, backup_path, pos) ==
    InsertAt(Without(d, backup_path), pos,
             [name |-> backup_path, mtime |-> source.mtime,
              content |-> source.content])

\* Lines 104-112: the copy, the comparison and the returned value. `later` is
\* the content of the data file when checksum_compare reads it.
CopyAndVerify(dS, d, source, later, backup_path, pos) ==
    IF source.access = "unreadable"
    THEN CopyReturn(dS, d, None, TRUE, "ioerror", backup_path)
    ELSE LET d2 == copy2(d, source, backup_path, pos)
         IN  IF ~checksum_compare(later, source.content)
             THEN CopyReturn(dS, d2, None, FALSE, "mismatch", backup_path)
             ELSE CopyReturn(dS, d2, backup_path, FALSE, "ok", backup_path)

\* copy_data_file(data_file, backup_dir, backup_filename, port, file_type).
\* pos is where the new entry appears in os.listdir order.
copy_data_file(dS, d, source, later, backup_filename, port, file_type, pos) ==
    IF source.access = "missing"
    THEN CopyReturn(dS, d, None, TRUE, "ioerror", None)   \* os.path.getmtime raises
    ELSE LET backup_path == BackupFilename(source.mtime, backup_filename, file_type)
         IN  IF dS = "absent"
             THEN CopyAndVerify("dir", <<>>, source, later, backup_path, 1)
             ELSE IF dS = "notdir"
             THEN CopyReturn(dS, d, None, FALSE, "baddir", backup_path)
             ELSE IF DestinationTaken(d, backup_path)
             THEN CopyReturn(dS, d, None, FALSE, "collision", backup_path)
             ELSE CopyAndVerify(dS, d, source, later, backup_path, pos)

(* ------------------------------ clean_backup_dir ----------------------- *)
RECURSIVE InsertByMtime(_, _)
\* e goes behind every entry that is not newer: list.sort is stable
InsertByMtime(sorted, e) ==
    IF sorted = <<>> THEN <<e>>
    ELSE IF Head(sorted).mtime <= e.mtime
         THEN <<Head(sorted)>> \o InsertByMtime(Tail(sorted), e)
         ELSE <<e>> \o sorted

RECURSIVE SortByMtime(_)
\* files_time.sort(key=lambda x: x[1])
SortByMtime(files) ==
    IF files = <<>> THEN <<>>
    ELSE InsertByMtime(SortByMtime(SubSeq(files, 1, Len(files) - 1)), files[Len(files)])

\* The slice taken from the wrong end of the sorted list.
OldestExcess_Newest(files_time, n_files, max_backups) ==
    SubSeq(files_time, IF max_backups < 0 THEN 1 ELSE max_backups + 1, Len(files_time))

\* files_time[:n_files - max_backups], for n_files > max_backups
OldestExcess(files_time, n_files, max_backups) ==
    SubSeq(files_time, 1, IF n_files - max_backups < Len(files_time)
                          THEN n_files - max_backups ELSE Len(files_time))

RECURSIVE RemoveLoop(_, _, _, _)
\* for fp in ...: os.remove(fp[0]). `undeletable` are the entries on which
\* os.remove raises OSError (a directory, a permission, a lost race).
RemoveLoop(d, doomed, undeletable, gone) ==
    IF doomed = <<>> THEN [dir |-> d, raised |-> "none", deleted |-> gone]
    ELSE IF Head(doomed).name \in undeletable
         THEN [dir |-> d, raised |-> "OSError", deleted |-> gone]
         ELSE RemoveLoop(Without(d, Head(doomed).name), Tail(doomed), undeletable,
                         gone \cup {Head(doomed).name})

\* The limit compared off by one.
WithinLimit_OffByOne(n_files, max_backups) == n_files <= max_backups + 1

\* if n_files <= max_backups: return
WithinLimit(n_files, max_backups) == n_files <= max_backups

\* clean_backup_dir(backup_dir, max_backups, port, file_type)
clean_backup_dir(d, max_backups, port, file_type, undeletable) ==
    LET files == Matching(d, port, file_type)
        n_files == Len(files)
    IN  IF WithinLimit(n_files, max_backups)
        THEN [dir |-> d, raised |-> "none", deleted |-> {}]
        ELSE LET files_time == SortByMtime(files)
                 res == RemoveLoop(d, OldestExcess(files_time, n_files, max_backups),
                                   undeletable, {})
             IN  IF res.raised # "none" THEN res
                 ELSE IF Len(Matching(res.dir, port, file_type)) = max_backups
                      THEN res
                      ELSE [res EXCEPT !.raised = "AssertionError"]

clean_rdb_backup(d, max_backups, port, undeletable) ==
    clean_backup_dir(d, max_backups, port, "rdb", undeletable)

clean_aof_backup(d, max_backups, port, undeletable) ==
    clean_backup_dir(d, max_backups, port, "aof", undeletable)

copy_rdb(dS, d, rdb, later, backup_filename, port, pos) ==
    copy_data_file(dS, d, rdb, later, backup_filename, port, "rdb", pos)

copy_aof(dS, d, aof, later, backup_filename, port, pos) ==
    copy_data_file(dS, d, aof, later, backup_filename, port, "aof", pos)

(* ------------------------------ bgsave_and_wait ------------------------ *)
\* One pass of the while loop, lines 48-52, on the marker just read and the
\* time waited since bgsave_begin.
MarkerChanged(m, t0v) == m # t0v
\* The deadline compared with >= instead of >.
DeadlinePassed_AtLimit(elapsed, tmo) == elapsed >= tmo
\* The deadline noticed one second late.
DeadlinePassed_Late(elapsed, tmo) == elapsed > tmo + 1
DeadlinePassed(elapsed, tmo) == elapsed > tmo

PollDecision(m, t0v, elapsed, tmo) ==
    IF MarkerChanged(m, t0v) THEN "ok"
    ELSE IF DeadlinePassed(elapsed, tmo) THEN "timeout"
    ELSE "sleep"

RECURSIVE PollLoop(_, _, _)
\* The loop when every sleep(1) takes one second and the marker differs from
\* t0 from the poll numbered changeAt on.
PollLoop(i, changeAt, tmo) ==
    LET d == PollDecision(IF i >= changeAt THEN 1 ELSE 0, 0, i, tmo)
    IN  IF d = "sleep" THEN PollLoop(i + 1, changeAt, tmo) ELSE d

\* bgsave_and_wait(r, timeout)
bgsave_and_wait(bgsaveAccepted, changeAt, tmo) ==
    IF bgsaveAccepted THEN PollLoop(0, changeAt, tmo) ELSE "failed"

(* ------------------------------ main ----------------------------------- *)
\* The command line: the default template or one that names the run's own
\* port, any limit from -1 up, any port, with or without -with_aof.
Config ==
    {c \in [backup_filename : Templates, max_backups : -1 .. MaxBackups,
            redis_port : Ports, with_aof : BOOLEAN] :
        c.backup_filename \in {DefaultTemplate, c.redis_port}}

NoCopy == [outcome |-> "none", dest |-> None, ret |-> None, existed |-> FALSE]
NoCopies == [t \in FileTypes |-> NoCopy]
NoPrune == [raised |-> "notrun", deleted |-> {}]
NoPrunes == [t \in FileTypes |-> NoPrune]

Terminal == {"Done", "Aborted"}

\* What the data file can look like when a copy starts.
SourceStates(content) ==
    {s \in SourceFiles :
        /\ s.access = "missing" => s.mtime = 0
        /\ s.content = content}

\* The data file's content when the checksum is taken: unchanged, or changed
\* by the store in the meantime.
LaterContents(source) ==
    IF source.access = "ok" THEN {source.content, source.content + 1}
    ELSE {source.content}

Positions(d) == {1, Len(d) + 1}

CopyRecord(c, before) ==
    [outcome |-> c.outcome, dest |-> c.dest, ret |-> c.ret,
     existed |-> (c.dest # None /\ Exists(before, c.dest))]

Wrote(c) == c.outcome \in {"ok", "mismatch"}

Written(c) ==
    /\ everWritten' = IF Wrote(c) THEN everWritten \cup {c.dest} ELSE everWritten
    /\ rewritten' = IF Wrote(c) /\ c.dest \in everWritten
                    THEN rewritten \cup {c.dest} ELSE rewritten

\* Only 'failed' treated as a failed save.
SaveOk_NotFailed(r) == r # "failed"

\* if ret != 'ok': ... sys.exit(1)
SaveOk(r) == r = "ok"

\* The verified backups on disk once copy c has returned and the directory
\* has become after.
VerifiedAfter(c, after) ==
    (IF c.outcome = "ok" THEN verified \cup {c.dest} ELSE verified) \cap NamesOf(after)

\* Every rdb backup removed instead of the one just written.
Compensate_AllRdb(d, rdb_bak_path) == SelectSeq(d, LAMBDA e : e.name.kind # "rdb")

\* os.remove(rdb_bak_path)
Compensate(d, rdb_bak_path) == Without(d, rdb_bak_path)

\* The returned path not tested.
CopyFailed_Never(path) == FALSE

\* if not rdb_bak_path / if not aof_bak_path
CopyFailed(path) == path = None

\* Lines 261-269
Save ==
    /\ state = "Idle"
    /\ \E bgsaveAccepted \in BOOLEAN, changeAt \in 0 .. (MaxTimeout + 2),
          tmo \in 0 .. MaxTimeout :
          ret' = bgsave_and_wait(bgsaveAccepted, changeAt, tmo)
    /\ IF SaveOk(ret')
       THEN state' = "CopyingPrimary" /\ exitStatus' = exitStatus
       ELSE state' = "Aborted" /\ exitStatus' = 1
    /\ UNCHANGED <<dirState, dir, cfg, copied, pruned, dir0, rewritten, everWritten,
                   verified, runs>>
    /\ UNCHANGED <<saveVars, calls, procs>>

\* Lines 271-275. An exception that main does not catch ends the process
\* with status 1.
CopyPrimary ==
    /\ state = "CopyingPrimary"
    /\ \E rdb \in SourceStates(runs), pos \in Positions(dir) :
       \E later \in LaterContents(rdb) :
          LET c == copy_rdb(dirState, dir, rdb, later, cfg.backup_filename,
                            cfg.redis_port, pos)
          IN  /\ dirState' = c.dirState
              /\ dir' = c.dir
              /\ copied' = [copied EXCEPT !["rdb"] = CopyRecord(c, dir)]
              /\ Written(c)
              /\ IF c.raised \/ CopyFailed(c.ret)
                 THEN state' = "Aborted" /\ exitStatus' = 1
                 ELSE /\ state' = IF cfg.with_aof THEN "CopyingSecondary" ELSE "Pruning"
                      /\ exitStatus' = exitStatus
              /\ verified' = VerifiedAfter(c, dir')
    /\ UNCHANGED <<cfg, ret, pruned, dir0, runs>>
    /\ UNCHANGED <<saveVars, calls, procs>>

\* Lines 277-284
CopySecondary ==
    /\ state = "CopyingSecondary"
    /\ \E aof \in SourceStates(runs), pos \in Positions(dir) :
       \E later \in LaterContents(aof) :
          LET c == copy_aof(dirState, dir, aof, later, cfg.backup_filename,
                            cfg.redis_port, pos)
          IN  /\ dirState' = c.dirState
              /\ copied' = [copied EXCEPT !["aof"] = CopyRecord(c, dir)]
              /\ Written(c)
              /\ IF c.raised
                 THEN dir' = c.dir /\ state' = "Aborted" /\ exitStatus' = 1
                 ELSE IF CopyFailed(c.ret)
                 THEN /\ dir' = Compensate(c.dir, copied["rdb"].ret)
                      /\ state' = "Aborted" /\ exitStatus' = 1
                 ELSE dir' = c.dir /\ state' = "Pruning" /\ exitStatus' = exitStatus
              /\ verified' = VerifiedAfter(c, dir')
    /\ UNCHANGED <<cfg, ret, pruned, dir0, runs>>
    /\ UNCHANGED <<saveVars, calls, procs>>

Undeletables(d) == {{}} \cup {{n} : n \in NamesOf(d)}

PruneRecord(res) == [raised |-> res.raised, deleted |-> res.deleted]

\* Lines 286-290
Prune ==
    /\ state = "Pruning"
    /\ \E undeletable \in Undeletables(dir) :
          LET r1 == clean_rdb_backup(dir, cfg.max_backups, cfg.redis_port, undeletable)
              r2 == clean_aof_backup(r1.dir, cfg.max_backups, cfg.redis_port, undeletable)
          IN  IF r1.raised # "none"
              THEN /\ dir' = r1.dir
                   /\ pruned' = [pruned EXCEPT !["rdb"] = PruneRecord(r1)]
                   /\ state' = "Aborted" /\ exitStatus' = 1
              ELSE IF ~cfg.with_aof
              THEN /\ dir' = r1.dir
                   /\ pruned' = [pruned EXCEPT !["rdb"] = PruneRecord(r1)]
                   /\ state' = "Done" /\ exitStatus' = 0
              ELSE /\ dir' = r2.dir
                   /\ pruned' = [rdb |-> PruneRecord(r1), aof |-> PruneRecord(r2)]
                   /\ IF r2.raised # "none"
                      THEN state' = "Aborted" /\ exitStatus' = 1
                      ELSE state' = "Done" /\ exitStatus' = 0
    /\ verified' = verified \cap NamesOf(dir')
    /\ UNCHANGED <<dirState, cfg, ret, copied, dir0, rewritten, everWritten, runs>>
    /\ UNCHANGED <<saveVars, calls, procs>>

\* The scheduler invokes the tool again, with the same command line.
Restart ==
    /\ state \in Terminal
    /\ runs < MaxRuns
    /\ runs' = runs + 1
    /\ state' = "Idle"
    /\ exitStatus' = -1
    /\ ret' = "none"
    /\ copied' = NoCopies
    /\ pruned' = NoPrunes
    /\ dir0' = [dirState |-> dirState, dir |-> dir]
    /\ UNCHANGED <<dirState, dir, cfg, rewritten, everWritten, verified>>
    /\ UNCHANGED <<saveVars, calls, procs>>

Procs == {1, 2}

\* A run that has not yet entered copy_data_file.
NoProc == [pc |-> "start", source |-> [access |-> "missing", mtime |-> 0, content |-> 0],
           dest |-> None, ret |-> None, raised |-> FALSE, overwrote |-> FALSE]
NoProcs == [p \in Procs |-> NoProc]

SaveIdle ==
    /\ bpc = "idle" /\ now = 0 /\ marker = 0 /\ bgsave_begin = 0 /\ t0 = 0
    /\ timeout = 0 /\ accepted = FALSE /\ polled = <<>> /\ waited = 0 /\ bret = "none"

MainIdle ==
    /\ state = "Idle" /\ exitStatus = -1 /\ ret = "none"
    /\ copied = NoCopies /\ pruned = NoPrunes
    /\ rewritten = {} /\ everWritten = {} /\ verified = {} /\ runs = 1

Init ==
    /\ MainIdle
    /\ cfg \in Config
    /\ dirState \in {"absent", "dir", "notdir"}
    /\ dir = <<>>
    /\ dir0 = [dirState |-> dirState, dir |-> dir]
    /\ SaveIdle
    /\ calls = <<>>
    /\ procs = NoProcs

Next == Save \/ CopyPrimary \/ CopySecondary \/ Prune \/ Restart

Spec == Init /\ [][Next]_vars

(* ------------- bgsave_and_wait, statement by statement ----------------- *)
\* The store and the clock move while the function runs.
MainFrozen ==
    /\ MainIdle
    /\ cfg = [backup_filename |-> DefaultTemplate, max_backups |-> MaxBackups,
              redis_port |-> 1, with_aof |-> FALSE]
    /\ dirState = "absent" /\ dir = <<>>
    /\ dir0 = [dirState |-> "absent", dir |-> <<>>]

\* Line 43: bgsave_begin = datetime.now()
BgBegin ==
    /\ bpc = "idle"
    /\ bgsave_begin' = now
    /\ bpc' = "lastsave"
    /\ UNCHANGED <<now, marker, t0, timeout, accepted, polled, waited, bret>>
    /\ UNCHANGED <<mainVars, calls, procs>>

\* Line 45: t0 = r.lastsave()
BgLastsave ==
    /\ bpc = "lastsave"
    /\ t0' = marker
    /\ bpc' = "bgsave"
    /\ UNCHANGED <<now, marker, bgsave_begin, timeout, accepted, polled, waited, bret>>
    /\ UNCHANGED <<mainVars, calls, procs>>

\* The loop entered whatever r.bgsave() returned.
BgTrigger_PollsAnyway ==
    /\ bpc = "bgsave"
    /\ \E a \in BOOLEAN : accepted' = a
    /\ bpc' = "poll"
    /\ UNCHANGED <<now, marker, bgsave_begin, t0, timeout, polled, waited, bret>>
    /\ UNCHANGED <<mainVars, calls, procs>>

\* Lines 46, 54-55: if r.bgsave(): ... else: return 'failed'
BgTrigger ==
    /\ bpc = "bgsave"
    /\ \E a \in BOOLEAN :
          /\ accepted' = a
          /\ IF a THEN bpc' = "poll" /\ bret' = bret
                  ELSE bpc' = "done" /\ bret' = "failed"
    /\ UNCHANGED <<now, marker, bgsave_begin, t0, timeout, polled, waited>>
    /\ UNCHANGED <<mainVars, calls, procs>>

\* Lines 48-49, 53: if r.lastsave() != t0: break ... return 'ok'
BgPoll ==
    /\ bpc = "poll"
    /\ polled' = Append(polled, marker)
    /\ IF MarkerChanged(marker, t0)
       THEN bpc' = "done" /\ bret' = "ok"
       ELSE bpc' = "deadline" /\ bret' = bret
    /\ UNCHANGED <<now, marker, bgsave_begin, t0, timeout, accepted, waited>>
    /\ UNCHANGED <<mainVars, calls, procs>>

\* Lines 50-51: if datetime.now() - bgsave_begin > timeout: return 'timeout'
BgDeadline ==
    /\ bpc = "deadline"
    /\ waited' = now - bgsave_begin
    /\ IF DeadlinePassed(waited', timeout)
       THEN bpc' = "done" /\ bret' = "timeout"
       ELSE bpc' = "sleep" /\ bret' = bret
    /\ UNCHANGED <<now, marker, bgsave_begin, t0, timeout, accepted, polled>>
    /\ UNCHANGED <<mainVars, calls, procs>>

\* Line 52: sleep(1)
BgSleep ==
    /\ bpc = "sleep"
    /\ now < MaxClock
    /\ now' = now + 1
    /\ bpc' = "poll"
    /\ UNCHANGED <<marker, bgsave_begin, t0, timeout, accepted, polled, waited, bret>>
    /\ UNCHANGED <<mainVars, calls, procs>>

\* Time passes between two statements.
Tick ==
    /\ bpc \notin {"idle", "done"}
    /\ now + 1 < MaxClock        \* the clock range keeps room for one sleep(1)
    /\ now' = now + 1
    /\ UNCHANGED <<bpc, marker, bgsave_begin, t0, timeout, accepted, polled, waited, bret>>
    /\ UNCHANGED <<mainVars, calls, procs>>

\* The store completes a save: LASTSAVE moves on.
SaveCompletes ==
    /\ bpc # "done"
    /\ marker < MaxMarker
    /\ marker' = marker + 1
    /\ UNCHANGED <<bpc, now, bgsave_begin, t0, timeout, accepted, polled, waited, bret>>
    /\ UNCHANGED <<mainVars, calls, procs>>

InitSave ==
    /\ MainFrozen
    /\ bpc = "idle" /\ now = 0 /\ marker = 0 /\ bgsave_begin = 0 /\ t0 = 0
    /\ timeout \in 0 .. MaxTimeout
    /\ accepted = FALSE /\ polled = <<>> /\ waited = 0 /\ bret = "none"
    /\ calls = <<>>
    /\ procs = NoProcs

NextSave ==
    BgBegin \/ BgLastsave \/ BgTrigger \/ BgPoll \/ BgDeadline \/ BgSleep
    \/ Tick \/ SaveCompletes

SpecSave == InitSave /\ [][NextSave]_vars

\* The interpreter executes the next statement of the function, and sleep(1)
\* returns; the store and the time between statements are under no obligation.
SpecSaveFair ==
    /\ SpecSave
    /\ WF_vars(BgBegin) /\ WF_vars(BgLastsave) /\ WF_vars(BgTrigger)
    /\ WF_vars(BgPoll) /\ WF_vars(BgDeadline) /\ WF_vars(BgSleep)

(* ------------- clean_backup_dir on a directory as it is found ---------- *)
\* Names a directory handed to clean_backup_dir may hold: backups of port 1
\* of type rdb, and one backup each of the other port, of the other type and
\* of a template without port text.
CleanNames ==
    [stamp : 0 .. (MaxCleanFiles - 1), tag : {1}, kind : {"rdb"}]
    \cup {[stamp |-> 0, tag |-> 2, kind |-> "rdb"],
          [stamp |-> 0, tag |-> 1, kind |-> "aof"],
          [stamp |-> 0, tag |-> DefaultTemplate, kind |-> "rdb"]}

CleanEntries == [name : CleanNames, mtime : Mtimes, content : {0}]

RECURSIVE Listings(_)
\* The directory listings of at most n entries, in every os.listdir order.
Listings(n) ==
    IF n = 0 THEN {<<>>}
    ELSE LET shorter == Listings(n - 1)
         IN  shorter \cup
             {Append(d, e) : <<d, e>> \in
                 {p \in shorter \X CleanEntries : ~Exists(p[1], p[2].name)}}

CleanCall(file_type) ==
    /\ Len(calls) < 2
    /\ \E undeletable \in Undeletables(dir) :
          LET res == clean_backup_dir(dir, cfg.max_backups, cfg.redis_port,
                                      file_type, undeletable)
          IN  /\ dir' = res.dir
              /\ calls' = Append(calls,
                    [file_type |-> file_type, before |-> dir, after |-> res.dir,
                     raised |-> res.raised, deleted |-> res.deleted])
    /\ UNCHANGED <<dirState, cfg, state, exitStatus, ret, copied, pruned, dir0,
                   rewritten, everWritten, verified, runs>>
    /\ UNCHANGED <<saveVars, procs>>

CleanRdb == CleanCall("rdb")
CleanAof == CleanCall("aof")

InitClean ==
    /\ MainIdle
    /\ cfg \in {c \in Config : c.backup_filename = DefaultTemplate /\ ~c.with_aof}
    /\ dirState = "dir"
    /\ dir \in Listings(MaxCleanFiles)
    /\ dir0 = [dirState |-> dirState, dir |-> dir]
    /\ SaveIdle
    /\ calls = <<>>
    /\ procs = NoProcs

NextClean == CleanRdb \/ CleanAof

SpecClean == InitClean /\ [][NextClean]_vars

(* ------------- two runs in copy_data_file at the same time ------------- *)
\* Both runs were started with the same command line for the same store; each
\* executes copy_rdb statement by statement, the other one running in between.
RaceFrame ==
    /\ UNCHANGED <<cfg, state, exitStatus, ret, copied, pruned, dir0, rewritten,
                   everWritten, verified, runs>>
    /\ UNCHANGED <<saveVars, calls>>

\* Lines 90-93: the mtime of the data file and the backup path made from it.
PGetmtime(p) ==
    /\ procs[p].pc = "start"
    /\ \E content \in Procs : \E source \in SourceStates(content) :
          procs' = IF source.access = "missing"
                   THEN [procs EXCEPT ![p].pc = "done", ![p].raised = TRUE]
                   ELSE [procs EXCEPT ![p].pc = "checkdir", ![p].source = source,
                            ![p].dest = BackupFilename(source.mtime,
                                                       cfg.backup_filename, "rdb")]
    /\ UNCHANGED <<dirState, dir>>
    /\ RaceFrame

\* Lines 95, 97-102: the three tests on backup_dir and backup_path.
PCheck(p) ==
    /\ procs[p].pc = "checkdir"
    /\ procs' = [procs EXCEPT ![p].pc =
                    IF dirState = "absent" THEN "makedirs"
                    ELSE IF dirState = "notdir" \/ DestinationTaken(dir, procs[p].dest)
                    THEN "done" ELSE "copy"]
    /\ UNCHANGED <<dirState, dir>>
    /\ RaceFrame

\* Line 96: os.makedirs(backup_dir), which raises OSError when it exists.
PMakedirs(p) ==
    /\ procs[p].pc = "makedirs"
    /\ IF dirState = "absent"
       THEN /\ dirState' = "dir"
            /\ procs' = [procs EXCEPT ![p].pc = "copy"]
       ELSE /\ dirState' = dirState
            /\ procs' = [procs EXCEPT ![p].pc = "done", ![p].raised = TRUE]
    /\ UNCHANGED dir
    /\ RaceFrame

\* Line 104: shutil.copy2(data_file, backup_path)
PCopy(p) ==
    /\ procs[p].pc = "copy"
    /\ IF procs[p].source.access = "unreadable"
       THEN /\ dir' = dir
            /\ procs' = [procs EXCEPT ![p].pc = "done", ![p].raised = TRUE]
       ELSE /\ \E pos \in Positions(Without(dir, procs[p].dest)) :
                  dir' = copy2(dir, procs[p].source, procs[p].dest, pos)
            /\ procs' = [procs EXCEPT ![p].pc = "verify",
                                      ![p].overwrote = Exists(dir, procs[p].dest)]
    /\ UNCHANGED dirState
    /\ RaceFrame

\* Lines 106-112: checksum_compare and the returned value.
PVerify(p) ==
    /\ procs[p].pc = "verify"
    /\ \E later \in LaterContents(procs[p].source) :
          procs' = [procs EXCEPT ![p].pc = "done",
                       ![p].ret = IF checksum_compare(later,
                                        EntryOf(dir, procs[p].dest).content)
                                  THEN procs[p].dest ELSE None]
    /\ UNCHANGED <<dirState, dir>>
    /\ RaceFrame

InitRace ==
    /\ MainIdle
    /\ cfg \in {c \in Config : ~c.with_aof /\ c.max_backups = MaxBackups}
    /\ dirState \in {"absent", "dir", "notdir"}
    /\ dir = <<>>
    /\ dir0 = [dirState |-> dirState, dir |-> dir]
    /\ SaveIdle
    /\ calls = <<>>
    /\ procs = NoProcs

NextRace ==
    \E p \in Procs :
        PGetmtime(p) \/ PCheck(p) \/ PMakedirs(p) \/ PCopy(p) \/ PVerify(p)

SpecRace == InitRace /\ [][NextRace]_vars

(* ============================ properties =============================== *)
BackedUp == IF cfg.with_aof THEN {"rdb", "aof"} ELSE {"rdb"}
CountOf(d, t) == Len(Matching(d, cfg.redis_port, t))
OnDisk(t) == Wrote(copied[t]) /\ Exists(dir, copied[t].dest)

\* C1: whenever the checksum comparison of a copy fails, copy_data_file
\* returns failure and the destination file is not on disk afterwards, for
\* the rdb copy and for the aof copy.
C1_NoFileAfterMismatch ==
    \A t \in FileTypes :
        copied[t].outcome = "mismatch" =>
            /\ copied[t].ret = None
            /\ ~Exists(dir, copied[t].dest)

\* C2: with aof backup enabled, when the rdb copy succeeded and the aof copy
\* failed for whatever reason, the run ends with the rdb backup of this run
\* off the disk and a non-zero exit status.
C2_CompensatingDeletion ==
    ( /\ state \in Terminal
      /\ cfg.with_aof
      /\ copied["rdb"].outcome = "ok"
      /\ copied["aof"].outcome \notin {"none", "ok"} )
    => /\ ~Exists(dir, copied["rdb"].dest)
       /\ exitStatus > 0

\* C3 as stated: a copy onto an existing destination fails and leaves the
\* file as it was, and no backup name is ever written twice.
C3_NeverWrittenTwice ==
    /\ \A t \in FileTypes :
          copied[t].existed =>
              /\ copied[t].ret = None
              /\ Exists(dir, copied[t].dest)
              /\ EntryOf(dir, copied[t].dest) = EntryOf(dir0.dir, copied[t].dest)
    /\ rewritten = {}

\* C3 as amended: a copy onto an existing destination fails and ends the run
\* with status 1, and no step ever changes the content or the modification
\* time of a file that stays on disk; a name is written again only after its
\* file was removed.
C3_ExistingNeverOverwritten ==
    [][ /\ \A n \in NamesOf(dir) :
              Exists(dir', n) => EntryOf(dir', n) = EntryOf(dir, n)
        /\ \A t \in FileTypes :
              (copied'[t] # copied[t] /\ copied'[t].existed) =>
                  /\ copied'[t].ret = None
                  /\ state' = "Aborted" /\ exitStatus' = 1
        /\ \A n \in rewritten' \ rewritten : ~Exists(dir, n)
      ]_vars

C3_Witness ==
    /\ runs = 2
    /\ copied["rdb"].outcome = "collision"
    /\ Exists(dir, copied["rdb"].dest)

\* C4: after a run that reaches Done with max_backups >= 0, every backed-up
\* file type has at most max_backups files ending in (port_<port>).<type>.
C4_RetentionBound ==
    (state = "Done" /\ cfg.max_backups >= 0) =>
        \A t \in BackedUp : CountOf(dir, t) <= cfg.max_backups

C4_Witness ==
    /\ state = "Done"
    /\ cfg.max_backups >= 1
    /\ pruned["rdb"].deleted # {}
    /\ CountOf(dir0.dir, "rdb") >= cfg.max_backups
    /\ CountOf(dir, "rdb") = cfg.max_backups

\* C5: a clean_backup_dir call that follows a completed call for the same
\* port, file type and max_backups deletes nothing; and a completed call on
\* more than max_backups matching files deletes count - max_backups of them,
\* none newer than a matching file it keeps, and keeps max_backups.
C5_CleanIdempotent ==
    \A i \in 1 .. Len(calls) :
        LET c == calls[i]
            had == Matching(c.before, cfg.redis_port, c.file_type)
            kept == Matching(c.after, cfg.redis_port, c.file_type)
        IN  /\ (i > 1 /\ calls[i - 1].file_type = c.file_type
                     /\ calls[i - 1].raised = "none")
                => (c.deleted = {} /\ c.after = c.before)
            /\ (c.raised = "none" /\ Len(had) > cfg.max_backups) =>
                   /\ Len(kept) = cfg.max_backups
                   /\ Cardinality(c.deleted) = Len(had) - cfg.max_backups
                   /\ c.deleted \subseteq NamesOf(had)
                   /\ \A j \in 1 .. Len(kept) : Exists(had, kept[j].name)
                   /\ \A n \in c.deleted : \A j \in 1 .. Len(kept) :
                          EntryOf(had, n).mtime <= kept[j].mtime

C5_Witness ==
    /\ Len(calls) = 2
    /\ calls[1].file_type = calls[2].file_type
    /\ calls[1].raised = "none" /\ calls[1].deleted # {}
    /\ Matching(calls[1].after, cfg.redis_port, calls[1].file_type) # <<>>
    /\ calls[2].deleted = {}

\* C6: once r.bgsave() is accepted, bgsave_and_wait returns 'ok' at the first
\* poll that reads a marker other than t0, however much time has passed, and
\* returns 'timeout' when the marker read is still t0 and the time waited
\* exceeds the timeout; it goes on polling only within the timeout.
C6_SaveOutcome ==
    /\ \A i \in 1 .. (Len(polled) - 1) : polled[i] = t0
    /\ (polled # <<>> /\ polled[Len(polled)] # t0) => (bpc = "done" /\ bret = "ok")
    /\ bret = "ok" => (polled # <<>> /\ polled[Len(polled)] # t0)
    /\ bret = "timeout" =>
          /\ polled # <<>> /\ polled[Len(polled)] = t0
          /\ waited > timeout
    /\ bpc = "sleep" => waited <= timeout
    /\ (bpc = "done" /\ accepted /\ marker = t0) => bret = "timeout"

C6_Witness ==
    /\ bret = "ok"
    /\ Len(polled) >= 2
    /\ waited <= timeout
    /\ now - bgsave_begin > timeout

\* C7: when bgsave_and_wait returns 'failed' or 'timeout' the run aborts with
\* a non-zero status, no copy is attempted, backup_dir and its entries are as
\* they were when the run started, and retention does not run.
C7_NoCopyWithoutSave ==
    ret \in {"failed", "timeout"} =>
        /\ state = "Aborted" /\ exitStatus > 0
        /\ copied = NoCopies
        /\ pruned = NoPrunes
        /\ dirState = dir0.dirState /\ dir = dir0.dir

C7_Witness ==
    /\ ret = "timeout" /\ state = "Aborted"
    /\ dirState = "absent"

\* C8: with the save and every enabled copy successful, a failure while
\* pruning leaves the run in Done with exit status zero, the backups of this
\* run untouched by error handling.
C8_PruneFailureStillDone ==
    ( /\ state \in Terminal
      /\ \E t \in FileTypes : pruned[t].raised \in {"OSError", "AssertionError"} )
    => state = "Done" /\ exitStatus = 0

\* C9: exit status zero only in Done, which needs ret = 'ok', a written and
\* verified rdb copy and, with aof enabled, a written and verified aof copy;
\* every aborted run has a non-zero status.
C9_ExitZeroOnlyOnDone ==
    /\ exitStatus = 0 =>
          /\ state = "Done"
          /\ ret = "ok"
          /\ \A t \in BackedUp : copied[t].outcome = "ok" /\ copied[t].ret # None
    /\ state = "Aborted" => exitStatus > 0
    /\ state = "Done" => exitStatus = 0

C9_Witness ==
    /\ exitStatus = 0 /\ cfg.with_aof
    /\ OnDisk("rdb") /\ OnDisk("aof")

\* C10: with aof backup enabled, after a run no aof backup written by the run
\* is on disk unless the rdb backup written by the run is on disk too.
C10_NoSecondaryWithoutPrimary ==
    (state \in Terminal /\ cfg.with_aof /\ OnDisk("aof")) => OnDisk("rdb")

\* C11 as stated: a backup written by a verified copy keeps its content, and
\* nothing but clean_backup_dir removes it from disk.
C11_OnlyPruningRemoves ==
    [][ \A n \in verified :
           /\ Exists(dir', n) => EntryOf(dir', n) = EntryOf(dir, n)
           /\ ~Exists(dir', n) =>
                 /\ state = "Pruning"
                 /\ n \in pruned'["rdb"].deleted \cup pruned'["aof"].deleted
      ]_vars

\* C11 as amended: a backup written by a verified copy keeps its content, and
\* it leaves the disk only through clean_backup_dir or, for the rdb backup of
\* the running run, through os.remove(rdb_bak_path) after copy_aof failed.
C11_OnlyPruningOrCompensationRemoves ==
    [][ \A n \in verified :
           /\ Exists(dir', n) => EntryOf(dir', n) = EntryOf(dir, n)
           /\ ~Exists(dir', n) =>
                 \/ /\ state = "Pruning"
                    /\ n \in pruned'["rdb"].deleted \cup pruned'["aof"].deleted
                 \/ /\ state = "CopyingSecondary"
                    /\ n = copied["rdb"].ret
                    /\ copied'["aof"].ret = None
                    /\ state' = "Aborted"
      ]_vars

C11_Witness ==
    /\ state = "Aborted"
    /\ copied["rdb"].outcome = "ok"
    /\ ~Exists(dir, copied["rdb"].dest)
    /\ \E n \in verified : n.kind = "rdb"

\* C12: with two runs on the same backup_dir and port interleaved in any
\* order, no run writes to a destination path that already exists.
C12_NoOverwriteWhenInterleaved ==
    \A p \in Procs : ~procs[p].overwrote

\* sleep(1) calls made so far: one before every poll but the first.
Sleeps == IF polled = <<>> THEN 0 ELSE Len(polled) - 1
\* Time since bgsave_begin that was not spent in sleep(1).
Overhead == (now - bgsave_begin) - Sleeps
NeverChanged == \A i \in 1 .. Len(polled) : polled[i] = t0

\* C13: every call of bgsave_and_wait ends, with exactly one of ok, failed,
\* timeout; no pass of the loop goes on after a deadline test that saw the
\* timeout exceeded; and when every poll read the unchanged marker the call
\* returns timeout, having waited no more than the timeout plus one sleep of one
\* second (plus whatever time the statements themselves took).
C13_Terminates ==
    /\ <>(bpc = "done" /\ bret \in {"ok", "failed", "timeout"})
    /\ [](bpc = "sleep" => ~DeadlinePassed(waited, timeout))
    /\ [](bpc = "done" /\ accepted /\ NeverChanged =>
             /\ bret = "timeout"
             /\ waited <= timeout + 1 + Overhead)

C13_Witness ==
    /\ bpc = "done" /\ bret = "timeout"
    /\ NeverChanged /\ Len(polled) >= 2
    /\ Overhead = 0
    /\ waited = timeout + 1

\* r.bgsave() has been called and has returned false.
Rejected == bpc \notin {"idle", "lastsave", "bgsave"} /\ ~accepted

\* C14: when r.bgsave() returns false, bgsave_and_wait returns failed at once:
\* the function is at its end, the marker was never polled, no deadline was
\* computed and no sleep made; and failed is returned only in that case.
C14_FailedIffRejected ==
    /\ Rejected => /\ bpc = "done" /\ bret = "failed"
                   /\ polled = <<>> /\ Sleeps = 0 /\ waited = 0
    /\ bret = "failed" => Rejected

\* Rejected although the store's marker has moved on since t0 was read.
C14_Witness ==
    /\ Rejected /\ bret = "failed"
    /\ MarkerChanged(marker, t0)
    /\ now > bgsave_begin

\* The names in listing d that end in "(port_<port>).<file_type>".
SuffixNames(d, port, file_type) ==
    {n \in NamesOf(d) : EndsWithSuffix(n, port, file_type)}

\* C15: a clean_backup_dir call for a port and file type deletes only entries
\* whose name ends in "(port_<port>).<file_type>"; entries of another port, of
\* the other type and without port text stay as they were; and when the
\* matching entries number max_backups or fewer the directory is not touched.
C15_OnlyMatchingDeleted ==
    \A i \in 1 .. Len(calls) :
        LET c == calls[i]
            mine == SuffixNames(c.before, cfg.redis_port, c.file_type)
        IN  /\ c.deleted \subseteq mine
            /\ NamesOf(c.after) = NamesOf(c.before) \ c.deleted
            /\ \A n \in NamesOf(c.before) \ mine :
                   EntryOf(c.after, n) = EntryOf(c.before, n)
            /\ Cardinality(mine) <= cfg.max_backups =>
                   c.deleted = {} /\ c.after = c.before /\ c.raised = "none"

\* A call that deleted a file next to files of the other port, type or template.
C15_Witness ==
    \E i \in 1 .. Len(calls) :
        /\ calls[i].deleted # {}
        /\ NamesOf(calls[i].after) # {}
        /\ \A n \in NamesOf(calls[i].after) :
               ~EndsWithSuffix(n, cfg.redis_port, calls[i].file_type)

\* C16: every backup file a run writes for port P and file type K has a name
\* ending in "(port_P).K", whatever -backup_filename is, the default included.
C16_WrittenNamesCarryPort ==
    \A t \in FileTypes :
        Wrote(copied[t]) => EndsWithSuffix(copied[t].dest, cfg.redis_port, t)

\* C17: in a run that completes with max_backups >= 1, the files this run has
\* just written are still on disk after clean_rdb_backup and clean_aof_backup,
\* whatever the modification times of the matching files already there.
C17_NewBackupsSurvivePruning ==
    state = "Done" /\ cfg.max_backups >= 1 =>
        \A t \in FileTypes :
            copied[t].outcome = "ok" => Exists(dir, copied[t].dest)

====
